---- MODULE Spec2Model ----
(***************************************************************************)
(* Model of livekit/plugins/avatario/api.py: the AvatarioAPI client, its   *)
(* constructor, start_session and the retrying _post loop.                 *)
(***************************************************************************)
EXTENDS Integers, FiniteSets, Sequences, TLC

\* Largest conn_options.max_retry the model constructs a client with.
MaxRetry == 3

\* Identifiers of the start_session calls made on the client.
CallIds == {1}

(***************************************************************************)
(* Python values.  Every value carries its type so that truthiness, the    *)
(* `or` operator and `is None` can be computed as Python computes them.    *)
(***************************************************************************)
NOT_GIVEN == [type |-> "NotGiven"]

None == [type |-> "None"]

Str(s) == [type |-> "str", s |-> s]

PyInt(n) == [type |-> "int", n |-> n]

Dict(f) == [type |-> "dict", d |-> f]

ClientSession(id) == [type |-> "ClientSession", id |-> id]

EmptyDict == Dict(<<>>)

\* bool(v): NOT_GIVEN, None, "" and {} are falsy, everything else is truthy.
Truthy(v) ==
  CASE v.type = "NotGiven" -> FALSE
    [] v.type = "None" -> FALSE
    [] v.type = "str" -> v.s # ""
    [] v.type = "dict" -> DOMAIN v.d # {}
    [] v.type = "int" -> v.n # 0
    [] OTHER -> TRUE

\* a or b
Or(a, b) == IF Truthy(a) THEN a ELSE b

\* utils.is_given(v)
is_given(v) == v # NOT_GIVEN

\* dict.update with the precedence reversed: colliding keys keep the value of p.
DictUpdate_BaseWins(p, e) ==
  [k \in (DOMAIN p) \cup (DOMAIN e) |-> IF k \in DOMAIN p THEN p[k] ELSE e[k]]

\* dict.update: the keys of e are written over those of p.
DictUpdate(p, e) ==
  [k \in (DOMAIN p) \cup (DOMAIN e) |-> IF k \in DOMAIN e THEN e[k] ELSE p[k]]

(***************************************************************************)
(* Inputs the model draws from.                                            *)
(***************************************************************************)
EnvNames == {"AVATARIO_API_KEY", "AVATARIO_REPLICA_ID"}

EnvValues(name) ==
  IF name = "AVATARIO_API_KEY"
  THEN {None, Str(""), Str("env-key")}
  ELSE {None, Str(""), Str("env-avatar")}

ApiKeyArgs == {NOT_GIVEN, Str(""), Str("arg-key")}

SessionArgs == {None, ClientSession("caller")}

\* APIConnectOptions with the library's default timeout and retry interval.
ConnOptionsArgs ==
  {[max_retry |-> n, retry_interval |-> 2, timeout |-> 10] : n \in 0..MaxRetry}

AvatarIdArgs == {NOT_GIVEN, Str(""), Str("arg-avatar")}

IdentityArgs == {NOT_GIVEN, Str(""), Str("agent-1")}

PropertiesArgs == {NOT_GIVEN, EmptyDict, Dict([room |-> Str("r1")])}

ExtraPayloadArgs ==
  {NOT_GIVEN,
   EmptyDict,
   Dict([audio_sample_rate |-> PyInt(16000)]),
   Dict([agent_id |-> Str("agent-x"), avatario_face_id |-> Str("avatar-x")])}

\* HTTP statuses the service answers with.
Statuses == {200, 304, 500}

\* Exceptions session.post, response.text or response.json can raise.
TransportExceptions == {"ClientError", "APIConnectionError"}

JsonExceptions == {"JSONDecodeError"}

\* The messages of the exceptions the client raises.
ApiKeyError == "AvatarioException: AVATARIO_API_KEY must be set"

AvatarIdError == "AvatarioException: avatar_id must be set"

IdentityError == "AvatarioException: the identity of agent needs to be provided to ensure its proper communication with avatario backend"

ExhaustedError == "APIConnectionError: Failed to call Avatario API after all retries"

VARIABLES env, client, calls, requests

vars == <<env, client, calls, requests>>

\* os.getenv(name)
getenv(name) == env[name]

NoClient ==
  [state |-> "none", api_key_arg |-> NOT_GIVEN, env_at_init |-> None,
   error |-> "", _api_key |-> None,
   _conn_options |-> [max_retry |-> 0, retry_interval |-> 0, timeout |-> 0],
   _session |-> None]

IdleCall ==
  [pc |-> "idle",
   args |-> [avatar_id |-> NOT_GIVEN, livekit_agent_identity |-> NOT_GIVEN,
             properties |-> NOT_GIVEN, extra_payload |-> NOT_GIVEN],
   env_at_entry |-> None,
   after |-> {},
   avatar_id |-> NOT_GIVEN,
   payload |-> <<>>,
   i |-> 0,
   status |-> 0,
   error |-> "",
   attempts |-> 0,
   waits |-> 0,
   slept |-> {},
   failed |-> 0,
   raised |-> 0,
   raised_conn |-> 0,
   bad_json |-> 0,
   first_ok |-> 0,
   warnings |-> 0,
   exceptions |-> 0]

Init ==
  /\ env \in [EnvNames -> UNION {EnvValues(n) : n \in EnvNames}]
  /\ \A n \in EnvNames : env[n] \in EnvValues(n)
  /\ client = NoClient
  /\ calls = [c \in CallIds |-> IdleCall]
  /\ requests = {}

(***************************************************************************)
(* AvatarioAPI.__init__                                                    *)
(***************************************************************************)
\* The check made against the NOT_GIVEN sentinel instead of None.
ApiKeyMissing_Sentinel(key) == key = NOT_GIVEN

\* if self._api_key is None
ApiKeyMissing(key) == key = None

Construct(api_key, conn_options, session) ==
  /\ client.state = "none"
  /\ LET key == Or(api_key, getenv("AVATARIO_API_KEY"))
         seen == [client EXCEPT !.api_key_arg = api_key,
                                !.env_at_init = getenv("AVATARIO_API_KEY")]
     IN IF ApiKeyMissing(key)
        THEN client' = [seen EXCEPT !.state = "failed",
                                    !.error = ApiKeyError]
        ELSE client' = [seen EXCEPT !.state = "ok",
                                    !._api_key = key,
                                    !._conn_options = conn_options,
                                    !._session = Or(session, ClientSession("owned"))]
  /\ UNCHANGED <<env, calls, requests>>

(***************************************************************************)
(* AvatarioAPI._post: the retry loop.                                      *)
(***************************************************************************)
\* A do-while loop: the first attempt is made whatever max_retry is.
InRange_AtLeastOnce(i, max_retry) == i = 0 \/ i < max_retry

\* range(max_retry + 1): one attempt more than configured.
InRange_OneMore(i, max_retry) == i <= max_retry

\* for i in range(max_retry): the body runs for index i
InRange(i, max_retry) == i < max_retry

\* if i < max_retry: a sleep after the last attempt too.
ShouldSleep_AfterLast(i, max_retry) == i < max_retry

\* if i < self._conn_options.max_retry - 1
ShouldSleep(i, max_retry) == i < max_retry - 1

\* response.ok of aiohttp: 400 > status
ResponseOk(status) == 400 > status

Is2xx(status) == 200 <= status /\ status < 300

\* The payload kept in an attribute of the client that a concurrent call
\* overwrites: the body sent is the payload built last by any other call.
Request_SharedPayload(c, i, payload) ==
  [call |-> c,
   attempt |-> i,
   url |-> "/start_session",
   headers |-> [content_type |-> Str("application/json"),
                x_api_key |-> client._api_key],
   json |-> IF \E d \in DOMAIN calls : d # c /\ DOMAIN calls[d].payload # {}
            THEN calls[CHOOSE d \in DOMAIN calls : d # c /\ DOMAIN calls[d].payload # {}].payload
            ELSE payload,
   timeout |-> client._conn_options.timeout]

\* The header read from the environment at each attempt instead of the
\* credential kept at construction.
Request_EnvKey(c, i, payload) ==
  [call |-> c,
   attempt |-> i,
   url |-> "/start_session",
   headers |-> [content_type |-> Str("application/json"),
                x_api_key |-> getenv("AVATARIO_API_KEY")],
   json |-> payload,
   timeout |-> client._conn_options.timeout]

\* The arguments of self._session.post for attempt i of call c.
Request(c, i, payload) ==
  [call |-> c,
   attempt |-> i,
   url |-> "/start_session",
   headers |-> [content_type |-> Str("application/json"),
                x_api_key |-> client._api_key],
   json |-> payload,
   timeout |-> client._conn_options.timeout]

\* The attempt index kept on the client instead of in a local variable:
\* the attempts made by the other calls count against this call.
Iterate_SharedBudget(c, rec, i) ==
  LET used == Cardinality({r \in requests : r.call # c})
  IN IF InRange(i + used, client._conn_options.max_retry)
     THEN /\ calls' = [calls EXCEPT ![c] = [rec EXCEPT !.pc = "post",
                                                         !.i = i,
                                                         !.attempts = @ + 1]]
          /\ requests' = requests \cup {Request(c, i, rec.payload)}
     ELSE /\ calls' = [calls EXCEPT ![c] =
                         [rec EXCEPT !.pc = "raised",
                                     !.error = ExhaustedError]]
          /\ UNCHANGED requests

\* The for loop wrapped in `while True`: when the attempts are used up the
\* loop starts over from a fresh first attempt instead of raising.
Iterate_RetryForever(c, rec, i) ==
  IF InRange(i, client._conn_options.max_retry)
  THEN /\ calls' = [calls EXCEPT ![c] = [rec EXCEPT !.pc = "post",
                                                      !.i = i,
                                                      !.attempts = @ + 1]]
       /\ requests' = requests \cup {Request(c, i, rec.payload)}
  ELSE /\ calls' = [calls EXCEPT ![c] =
                      [rec EXCEPT !.pc = "post", !.i = 0, !.attempts = 1,
                                  !.waits = 0, !.slept = {}, !.failed = 0,
                                  !.raised = 0, !.raised_conn = 0, !.bad_json = 0,
                                  !.first_ok = 0, !.warnings = 0,
                                  !.exceptions = 0]]
       /\ requests' = requests \cup {Request(c, 0, rec.payload)}

\* The head of the for loop with index i: either the body starts, and the
\* POST is issued, or the loop is over and the final raise is reached.
Iterate(c, rec, i) ==
  IF InRange(i, client._conn_options.max_retry)
  THEN /\ calls' = [calls EXCEPT ![c] = [rec EXCEPT !.pc = "post",
                                                      !.i = i,
                                                      !.attempts = @ + 1]]
       /\ requests' = requests \cup {Request(c, i, rec.payload)}
  ELSE /\ calls' = [calls EXCEPT ![c] =
                      [rec EXCEPT !.pc = "raised",
                                  !.error = ExhaustedError]]
       /\ UNCHANGED requests

\* The handler without the isinstance branch: every failure goes to
\* logger.exception.
HandleException_NoWarning(c, rec, exc) ==
  LET logged == [rec EXCEPT !.failed = @ + 1, !.exceptions = @ + 1, !.status = 0]
  IN IF ShouldSleep(rec.i, client._conn_options.max_retry)
     THEN /\ calls' = [calls EXCEPT ![c] =
                         [logged EXCEPT !.pc = "sleep",
                                        !.waits = @ + 1,
                                        !.slept = @ \cup {client._conn_options.retry_interval}]]
          /\ UNCHANGED requests
     ELSE Iterate(c, logged, rec.i + 1)

\* The handler logging and then re-raising the exception to the caller.
HandleException_Reraise(c, rec, exc) ==
  /\ calls' = [calls EXCEPT ![c] =
                 [rec EXCEPT !.pc = "raised",
                             !.error = exc,
                             !.failed = @ + 1,
                             !.exceptions = @ + 1,
                             !.status = 0]]
  /\ UNCHANGED requests

\* except Exception as e: log, then sleep if another attempt remains,
\* otherwise fall through to the next iteration of the loop.
HandleException(c, rec, exc) ==
  LET logged == IF exc = "APIConnectionError"
                THEN [rec EXCEPT !.failed = @ + 1, !.warnings = @ + 1, !.status = 0]
                ELSE [rec EXCEPT !.failed = @ + 1, !.exceptions = @ + 1, !.status = 0]
  IN IF ShouldSleep(rec.i, client._conn_options.max_retry)
     THEN /\ calls' = [calls EXCEPT ![c] =
                         [logged EXCEPT !.pc = "sleep",
                                        !.waits = @ + 1,
                                        !.slept = @ \cup {client._conn_options.retry_interval}]]
          /\ UNCHANGED requests
     ELSE Iterate(c, logged, rec.i + 1)

\* An exception of class exc leaves the try block of call record rec.
Raise(rec, exc) ==
  [rec EXCEPT
     !.raised = @ + 1,
     !.raised_conn = IF exc = "APIConnectionError" THEN @ + 1 ELSE @,
     !.bad_json = IF exc \in JsonExceptions /\ Is2xx(rec.status) THEN @ + 1 ELSE @]

\* self._session.post raises before a response arrives.
PostRaises(c, exc) ==
  /\ calls[c].pc = "post"
  /\ HandleException(c, Raise(calls[c], exc), exc)
  /\ UNCHANGED <<env, client>>

\* The response status line arrives: if not response.ok
PostResponds(c, status) ==
  /\ calls[c].pc = "post"
  /\ calls' = [calls EXCEPT ![c] =
                 [@ EXCEPT !.status = status,
                           !.pc = IF ResponseOk(status) THEN "json" ELSE "text"]]
  /\ UNCHANGED <<env, client, requests>>

\* await response.text(), then raise APIStatusError; reading the body can
\* itself raise a transport exception.
ReadText(c, exc) ==
  /\ calls[c].pc = "text"
  /\ HandleException(c, Raise(calls[c], exc), exc)
  /\ UNCHANGED <<env, client>>

\* await response.json() returns: the with block and the try statement end,
\* and the loop goes on to its next iteration.
ParseJson(c) ==
  /\ calls[c].pc = "json"
  /\ LET rec == calls[c]
         done == IF Is2xx(rec.status) /\ rec.first_ok = 0
                 THEN [rec EXCEPT !.first_ok = rec.i + 1, !.status = 0]
                 ELSE [rec EXCEPT !.status = 0]
     IN Iterate(c, done, rec.i + 1)
  /\ UNCHANGED <<env, client>>

\* The exception of response.json() swallowed: the attempt is taken for a
\* success and the loop goes on without log or sleep.
ParseJsonRaises_Swallowed(c, exc) ==
  /\ calls[c].pc = "json"
  /\ LET rec == Raise(calls[c], exc)
         done == IF Is2xx(rec.status) /\ rec.first_ok = 0
                 THEN [rec EXCEPT !.first_ok = rec.i + 1, !.status = 0]
                 ELSE [rec EXCEPT !.status = 0]
     IN Iterate(c, done, rec.i + 1)
  /\ UNCHANGED <<env, client>>

\* await response.json() raises.
ParseJsonRaises(c, exc) ==
  /\ calls[c].pc = "json"
  /\ HandleException(c, Raise(calls[c], exc), exc)
  /\ UNCHANGED <<env, client>>

\* asyncio.sleep(retry_interval) returns.
SleepElapses(c) ==
  /\ calls[c].pc = "sleep"
  /\ Iterate(c, calls[c], calls[c].i + 1)
  /\ UNCHANGED <<env, client>>

(***************************************************************************)
(* AvatarioAPI.start_session                                               *)
(***************************************************************************)
\* The environment taking precedence over the argument.
ResolveAvatarId_EnvFirst(avatar_id) == Or(getenv("AVATARIO_REPLICA_ID"), avatar_id)

\* avatar_id or os.getenv("AVATARIO_REPLICA_ID")
ResolveAvatarId(avatar_id) == Or(avatar_id, getenv("AVATARIO_REPLICA_ID"))

\* if avatar_id is None: an empty string passes.
AvatarMissing_IsNone(avatar_id) == avatar_id = None

\* if not avatar_id
AvatarMissing(avatar_id) == ~Truthy(avatar_id)

\* if not utils.is_given(identity): an empty string passes.
IdentityMissing_NotGiven(identity) == identity = NOT_GIVEN

\* if not livekit_agent_identity
IdentityMissing(identity) == ~Truthy(identity)

\* The payload literal without the `properties or {}` default.
BasePayload_NoDefault(avatar_id, identity, properties) ==
  [avatario_face_id |-> avatar_id,
   agent_id |-> identity,
   livekit |-> properties]

\* The payload literal of lines 60-65.
BasePayload(avatar_id, identity, properties) ==
  [avatario_face_id |-> avatar_id,
   agent_id |-> identity,
   livekit |-> Or(properties, EmptyDict)]

\* if utils.is_given(extra_payload): payload.update(extra_payload)
BuildPayload(avatar_id, identity, properties, extra_payload) ==
  IF is_given(extra_payload)
  THEN DictUpdate(BasePayload(avatar_id, identity, properties), extra_payload.d)
  ELSE BasePayload(avatar_id, identity, properties)

StartSession(c, avatar_id, identity, properties, extra_payload) ==
  /\ client.state = "ok"
  /\ calls[c].pc = "idle"
  /\ LET resolved == ResolveAvatarId(avatar_id)
         entered == [calls[c] EXCEPT
                       !.args = [avatar_id |-> avatar_id,
                                 livekit_agent_identity |-> identity,
                                 properties |-> properties,
                                 extra_payload |-> extra_payload],
                       !.env_at_entry = getenv("AVATARIO_REPLICA_ID"),
                       !.after = {d \in DOMAIN calls : calls[d].pc \in {"raised", "returned"}},
                       !.avatar_id = resolved]
     IN IF AvatarMissing(resolved)
        THEN /\ calls' = [calls EXCEPT ![c] =
                            [entered EXCEPT !.pc = "raised",
                                            !.error = AvatarIdError]]
             /\ UNCHANGED requests
        ELSE IF IdentityMissing(identity)
        THEN /\ calls' = [calls EXCEPT ![c] =
                            [entered EXCEPT !.pc = "raised",
                                            !.error = IdentityError]]
             /\ UNCHANGED requests
        ELSE Iterate(c,
                     [entered EXCEPT !.payload =
                        BuildPayload(resolved, identity, properties, extra_payload)],
                     0)
  /\ UNCHANGED <<env, client>>

Next ==
  \/ \E k \in ApiKeyArgs, o \in ConnOptionsArgs, s \in SessionArgs : Construct(k, o, s)
  \/ \E c \in DOMAIN calls :
       \E a \in AvatarIdArgs, id \in IdentityArgs, p \in PropertiesArgs, e \in ExtraPayloadArgs :
         StartSession(c, a, id, p, e)
  \/ \E c \in DOMAIN calls : \E exc \in TransportExceptions : PostRaises(c, exc)
  \/ \E c \in DOMAIN calls : \E st \in Statuses : PostResponds(c, st)
  \/ \E c \in DOMAIN calls : \E exc \in {"APIStatusError"} \cup TransportExceptions : ReadText(c, exc)
  \/ \E c \in DOMAIN calls : ParseJson(c)
  \/ \E c \in DOMAIN calls : \E exc \in JsonExceptions \cup TransportExceptions : ParseJsonRaises(c, exc)
  \/ \E c \in DOMAIN calls : SleepElapses(c)

Spec == Init /\ [][Next]_vars

\* Every awaited operation of a call completes: the POST is answered or
\* fails (at the latest by its timeout), the body is read or parsed, and
\* the sleep of the retry interval elapses.
Fairness ==
  \A c \in CallIds :
    /\ WF_vars((\E exc \in TransportExceptions : PostRaises(c, exc))
                 \/ (\E st \in Statuses : PostResponds(c, st)))
    /\ WF_vars(\E exc \in {"APIStatusError"} \cup TransportExceptions : ReadText(c, exc))
    /\ WF_vars(ParseJson(c)
                 \/ (\E exc \in JsonExceptions \cup TransportExceptions : ParseJsonRaises(c, exc)))
    /\ WF_vars(SleepElapses(c))

SpecFair == Spec /\ Fairness

(***************************************************************************)
(* Two start_session calls on one client, interleaved at every await,      *)
(* while the process environment changes under them.                       *)
(***************************************************************************)
TwoCallIds == {1, 2}

\* os.environ[name] = value, or del os.environ[name], done by the process.
SetEnv(name, value) ==
  /\ env[name] # value
  /\ env' = [env EXCEPT ![name] = value]
  /\ UNCHANGED <<client, calls, requests>>

TwoConnOptionsArgs ==
  {[max_retry |-> n, retry_interval |-> 2, timeout |-> 10] : n \in 0..(MaxRetry - 1)}

TwoAvatarIdArgs == {NOT_GIVEN, Str("arg-avatar")}

\* Each call passes its own agent identity, or an empty one.
TwoIdentityArgs(c) == {Str(""), IF c = 1 THEN Str("agent-1") ELSE Str("agent-2")}

TwoStatuses == {200, 500}

InitTwo ==
  /\ env = [n \in EnvNames |-> IF n = "AVATARIO_API_KEY" THEN Str("env-key") ELSE None]
  /\ client = NoClient
  /\ calls = [c \in TwoCallIds |-> IdleCall]
  /\ requests = {}

NextTwo ==
  \/ \E v \in EnvValues("AVATARIO_REPLICA_ID") : SetEnv("AVATARIO_REPLICA_ID", v)
  \/ \E o \in TwoConnOptionsArgs : Construct(Str("arg-key"), o, None)
  \/ \E c \in DOMAIN calls :
       \E a \in TwoAvatarIdArgs, id \in TwoIdentityArgs(c) :
         StartSession(c, a, id, NOT_GIVEN, NOT_GIVEN)
  \/ \E c \in DOMAIN calls : PostRaises(c, "APIConnectionError")
  \/ \E c \in DOMAIN calls : \E st \in TwoStatuses : PostResponds(c, st)
  \/ \E c \in DOMAIN calls : ReadText(c, "APIStatusError")
  \/ \E c \in DOMAIN calls : ParseJson(c)
  \/ \E c \in DOMAIN calls : ParseJsonRaises(c, "JSONDecodeError")
  \/ \E c \in DOMAIN calls : SleepElapses(c)

SpecTwo == InitTwo /\ [][NextTwo]_vars

(***************************************************************************)
(* One call with every combination of arguments, made while                *)
(* AVATARIO_REPLICA_ID changes before, during and after the call.          *)
(***************************************************************************)
InitEnv ==
  /\ env \in [EnvNames -> UNION {EnvValues(n) : n \in EnvNames}]
  /\ env["AVATARIO_API_KEY"] = Str("env-key")
  /\ env["AVATARIO_REPLICA_ID"] \in EnvValues("AVATARIO_REPLICA_ID")
  /\ client = NoClient
  /\ calls = [c \in CallIds |-> IdleCall]
  /\ requests = {}

NextEnv ==
  \/ \E v \in EnvValues("AVATARIO_REPLICA_ID") : SetEnv("AVATARIO_REPLICA_ID", v)
  \/ \E o \in ConnOptionsArgs : Construct(NOT_GIVEN, o, None)
  \/ \E c \in DOMAIN calls :
       \E a \in AvatarIdArgs, id \in IdentityArgs, p \in PropertiesArgs, e \in ExtraPayloadArgs :
         StartSession(c, a, id, p, e)
  \/ \E c \in DOMAIN calls : \E exc \in TransportExceptions : PostRaises(c, exc)
  \/ \E c \in DOMAIN calls : \E st \in Statuses : PostResponds(c, st)
  \/ \E c \in DOMAIN calls : \E exc \in {"APIStatusError"} \cup TransportExceptions : ReadText(c, exc)
  \/ \E c \in DOMAIN calls : ParseJson(c)
  \/ \E c \in DOMAIN calls : \E exc \in JsonExceptions \cup TransportExceptions : ParseJsonRaises(c, exc)
  \/ \E c \in DOMAIN calls : SleepElapses(c)

SpecEnv == InitEnv /\ [][NextEnv]_vars

(***************************************************************************)
(* Vocabulary of the properties.                                           *)
(***************************************************************************)
max_retry == client._conn_options.max_retry

\* The call got past validation: its payload was built and _post entered.
Validated(c) ==
  \/ calls[c].pc \in {"post", "text", "json", "sleep", "returned"}
  \/ calls[c].pc = "raised" /\ calls[c].error = ExhaustedError

\* start_session returned to its caller without an exception.
Returned(c) == calls[c].pc = "returned" /\ calls[c].error = ""

\* start_session raised the error of the exhausted retry loop.
Exhausted(c) == calls[c].pc = "raised" /\ calls[c].error = ExhaustedError

Terminal(c) == calls[c].pc \in {"raised", "returned"}

\* The POST requests issued by call c.
PostsOf(c) == {r \in requests : r.call = c}

\* The attempts of call c that have run to their end.
Completed(c) ==
  IF calls[c].pc \in {"post", "text", "json"}
  THEN calls[c].attempts - 1
  ELSE calls[c].attempts

Min(a, b) == IF a < b THEN a ELSE b

(***************************************************************************)
(* C1: when the k-th attempt (1 <= k <= max_retry) is the first one        *)
(* answered with a 2xx status and a JSON body, start_session returns       *)
(* normally, with no error raised.                                         *)
(***************************************************************************)
C1_SuccessReturnsNormally ==
  \A c \in DOMAIN calls :
    (max_retry >= 1 /\ calls[c].first_ok >= 1) => Returned(c)

(***************************************************************************)
(* C2: once an attempt was answered with a 2xx status and a parseable JSON *)
(* body no further POST is issued: the number of attempts is the index of  *)
(* the first successful attempt.                                           *)
(***************************************************************************)
C2_NoAttemptAfterSuccess ==
  \A c \in DOMAIN calls :
    calls[c].first_ok >= 1 =>
      /\ calls[c].attempts = calls[c].first_ok
      /\ Cardinality(PostsOf(c)) = calls[c].first_ok

(***************************************************************************)
(* C3: with max_retry = N >= 1, when every attempt fails exactly N POSTs   *)
(* are made (not N + 1) and the call fails with the exhaustion error.      *)
(***************************************************************************)
C3_AllFailExhausts ==
  \A c \in DOMAIN calls :
    /\ (max_retry >= 1 /\ calls[c].failed = max_retry) =>
         /\ Exhausted(c)
         /\ calls[c].attempts = max_retry
         /\ Cardinality(PostsOf(c)) = max_retry
    /\ (max_retry >= 1 /\ Validated(c) /\ Terminal(c)
          /\ (calls[c].failed = calls[c].attempts \/ calls[c].first_ok = 0)) =>
         /\ Exhausted(c)
         /\ calls[c].attempts = max_retry
         /\ Cardinality(PostsOf(c)) = max_retry

\* Three attempts, each answered with a failure, and then the error.
C3_Witness ==
  \E c \in DOMAIN calls :
    /\ max_retry = 3
    /\ calls[c].failed = 3
    /\ calls[c].attempts = 3
    /\ Exhausted(c)

(***************************************************************************)
(* C4: while every attempt of a call fails, each failed attempt that has   *)
(* an attempt remaining is followed by exactly one wait of the retry       *)
(* interval, so N - 1 waits occur in all; there is no wait before the      *)
(* first attempt and none after the last one.                              *)
(***************************************************************************)
C4_WaitsBetweenAttempts ==
  \A c \in DOMAIN calls :
    /\ calls[c].attempts = 0 => calls[c].waits = 0
    /\ calls[c].slept \subseteq {client._conn_options.retry_interval}
    /\ calls[c].pc = "sleep" =>
         /\ calls[c].failed >= 1
         /\ calls[c].attempts < max_retry
    /\ (max_retry >= 1 /\ Validated(c) /\ calls[c].failed = Completed(c)) =>
         calls[c].waits = Min(calls[c].failed, max_retry - 1)
    /\ (max_retry >= 1 /\ Exhausted(c) /\ calls[c].failed = max_retry) =>
         calls[c].waits = max_retry - 1

\* Three failed attempts with two waits of the retry interval in between.
C4_Witness ==
  \E c \in DOMAIN calls :
    /\ max_retry = 3
    /\ Exhausted(c)
    /\ calls[c].failed = 3
    /\ calls[c].waits = 2
    /\ calls[c].slept = {client._conn_options.retry_interval}

(***************************************************************************)
(* C5: a call with an empty or not-given avatar id, made while             *)
(* AVATARIO_REPLICA_ID is unset or empty, fails with 'avatar_id must be    *)
(* set' and has issued no POST, made no wait and retried nothing.          *)
(***************************************************************************)
C5_MissingAvatarIdRejected ==
  \A c \in DOMAIN calls :
    (/\ calls[c].pc # "idle"
     /\ calls[c].args.avatar_id \in {NOT_GIVEN, Str("")}
     /\ calls[c].env_at_entry \in {None, Str("")}) =>
      /\ calls[c].pc = "raised"
      /\ calls[c].error = AvatarIdError
      /\ calls[c].attempts = 0
      /\ calls[c].waits = 0
      /\ calls[c].failed = 0
      /\ PostsOf(c) = {}

\* An empty avatar id with an empty environment value, rejected.
C5_Witness ==
  \E c \in DOMAIN calls :
    /\ calls[c].pc = "raised"
    /\ calls[c].error = AvatarIdError
    /\ calls[c].args.avatar_id = Str("")
    /\ calls[c].env_at_entry = Str("")
    /\ calls[c].args.livekit_agent_identity = Str("agent-1")

(***************************************************************************)
(* C6: a call with an empty or not-given agent identity fails with a       *)
(* validation error whatever its other arguments are, has issued no POST   *)
(* and is never retried.                                                   *)
(***************************************************************************)
C6_MissingIdentityRejected ==
  \A c \in DOMAIN calls :
    (/\ calls[c].pc # "idle"
     /\ calls[c].args.livekit_agent_identity \in {NOT_GIVEN, Str("")}) =>
      /\ calls[c].pc = "raised"
      /\ calls[c].error \in {AvatarIdError, IdentityError}
      /\ calls[c].attempts = 0
      /\ calls[c].waits = 0
      /\ calls[c].failed = 0
      /\ PostsOf(c) = {}

\* A resolved avatar id with an empty identity, rejected for the identity.
C6_Witness ==
  \E c \in DOMAIN calls :
    /\ calls[c].pc = "raised"
    /\ calls[c].error = IdentityError
    /\ calls[c].args.livekit_agent_identity = Str("")
    /\ calls[c].avatar_id = Str("arg-avatar")
    /\ max_retry >= 1

(***************************************************************************)
(* C7: constructing the client with no api_key argument while              *)
(* AVATARIO_API_KEY is unset fails with 'AVATARIO_API_KEY must be set';    *)
(* no client results and no request is ever issued.                        *)
(***************************************************************************)
C7_NoApiKeyFailsConstruction ==
  (/\ client.state # "none"
   /\ client.api_key_arg = NOT_GIVEN
   /\ client.env_at_init = None) =>
    /\ client.state = "failed"
    /\ client.error = ApiKeyError
    /\ requests = {}
    /\ \A c \in DOMAIN calls : calls[c].pc = "idle"

\* The constructor has run without argument and without the variable.
C7_Witness ==
  /\ client.state = "failed"
  /\ client.error = ApiKeyError
  /\ client.api_key_arg = NOT_GIVEN
  /\ client.env_at_init = None

(***************************************************************************)
(* C8: construction fails unless the api_key argument or AVATARIO_API_KEY  *)
(* supplies a non-empty key, so every constructed client holds a non-empty *)
(* credential.                                                             *)
(***************************************************************************)
C8_CredentialNonEmpty ==
  /\ (/\ client.state # "none"
      /\ client.api_key_arg \in {NOT_GIVEN, Str("")}
      /\ client.env_at_init \in {None, Str("")}) =>
       (client.state = "failed" /\ client.error = ApiKeyError)
  /\ client.state = "ok" =>
       (client._api_key.type = "str" /\ client._api_key.s # "")

(***************************************************************************)
(* C9: for a validated call without extra payload the request body has     *)
(* exactly the keys avatar_face_id, agent_id and caller_properties, bound  *)
(* to the resolved avatar id, the agent identity and the given properties  *)
(* (the empty mapping when they are not given).                            *)
(***************************************************************************)
ResolvedAvatarId(c) ==
  IF calls[c].args.avatar_id \in {NOT_GIVEN, Str("")}
  THEN calls[c].env_at_entry
  ELSE calls[c].args.avatar_id

GivenProperties(c) ==
  IF calls[c].args.properties = NOT_GIVEN
  THEN EmptyDict
  ELSE calls[c].args.properties

C9_BodyKeysAsSpecified ==
  \A c \in DOMAIN calls :
    (Validated(c) /\ calls[c].args.extra_payload = NOT_GIVEN) =>
      \A r \in PostsOf(c) :
        /\ DOMAIN r.json = {"avatar_face_id", "agent_id", "caller_properties"}
        /\ r.json["avatar_face_id"] = ResolvedAvatarId(c)
        /\ r.json["agent_id"] = calls[c].args.livekit_agent_identity
        /\ r.json["caller_properties"] = GivenProperties(c)

\* C9 as amended: the keys are avatario_face_id, agent_id and livekit.
C9_BodyKeysOfTheCode ==
  \A c \in DOMAIN calls :
    (Validated(c) /\ calls[c].args.extra_payload = NOT_GIVEN) =>
      /\ PostsOf(c) # {} => calls[c].payload \in {r.json : r \in PostsOf(c)}
      /\ \A r \in PostsOf(c) :
           /\ DOMAIN r.json = {"avatario_face_id", "agent_id", "livekit"}
           /\ r.json["avatario_face_id"] = ResolvedAvatarId(c)
           /\ r.json["agent_id"] = calls[c].args.livekit_agent_identity
           /\ r.json["livekit"] = GivenProperties(c)

\* A request was sent for a call without properties and without extra
\* payload, its avatar id taken from the environment.
C9_Witness ==
  \E c \in DOMAIN calls :
    /\ calls[c].args.extra_payload = NOT_GIVEN
    /\ calls[c].args.properties = NOT_GIVEN
    /\ calls[c].args.avatar_id = NOT_GIVEN
    /\ \E r \in PostsOf(c) : r.json["avatario_face_id"] = Str("env-avatar")

(***************************************************************************)
(* C10: with an extra payload the request body is the base payload with    *)
(* every extra key merged in at the top level: extra keys carry the extra  *)
(* value, also when they collide with a base key, and the other base keys  *)
(* keep their value; without extra payload the body is the base payload.   *)
(***************************************************************************)
BaseOf(c) ==
  BasePayload(calls[c].avatar_id,
              calls[c].args.livekit_agent_identity,
              calls[c].args.properties)

C10_ExtraPayloadMerged ==
  \A c \in DOMAIN calls :
    Validated(c) =>
      LET extra == calls[c].args.extra_payload
          body == calls[c].payload
      IN /\ \A r \in PostsOf(c) : r.json = body
         /\ extra = NOT_GIVEN => body = BaseOf(c)
         /\ extra # NOT_GIVEN =>
              /\ DOMAIN body = (DOMAIN BaseOf(c)) \cup (DOMAIN extra.d)
              /\ \A k \in DOMAIN extra.d : body[k] = extra.d[k]
              /\ \A k \in (DOMAIN BaseOf(c)) \ (DOMAIN extra.d) : body[k] = BaseOf(c)[k]

\* A request whose extra payload overwrote agent_id and the avatar key.
C10_Witness ==
  \E c \in DOMAIN calls :
    /\ calls[c].args.livekit_agent_identity = Str("agent-1")
    /\ \E r \in PostsOf(c) :
         /\ r.json["agent_id"] = Str("agent-x")
         /\ r.json["avatario_face_id"] = Str("avatar-x")
         /\ r.json["livekit"] = Dict([room |-> Str("r1")])

(***************************************************************************)
(* C11: every POST attempt, whatever its attempt number, carries the       *)
(* header x-api-key equal to the credential resolved at construction (the  *)
(* argument when it is non-empty, else the environment value read then),   *)
(* and the credential never changes once the client is constructed.        *)
(***************************************************************************)
CredentialAtConstruction ==
  IF client.api_key_arg \in {NOT_GIVEN, Str("")}
  THEN client.env_at_init
  ELSE client.api_key_arg

C11_ApiKeyHeaderOnEveryAttempt ==
  /\ [](\A r \in requests :
          /\ r.headers.x_api_key = CredentialAtConstruction
          /\ r.headers.x_api_key = client._api_key)
  /\ [][client.state = "ok" =>
          (client'.state = "ok" /\ client'._api_key = client._api_key)]_vars

\* The third attempt of a call was sent with the key taken from the
\* environment at construction.
C11_Witness ==
  \E r \in requests :
    /\ r.attempt = 2
    /\ client.api_key_arg = NOT_GIVEN
    /\ r.headers.x_api_key = Str("env-key")

(***************************************************************************)
(* C12: once validation has passed, no status error and no transport       *)
(* failure of an attempt reaches the caller: each is absorbed by the loop, *)
(* the only error raised from the retry phase is the exhaustion error, and *)
(* the call ends in exactly one of success and exhaustion.                 *)
(***************************************************************************)
\* The payload was built: the call is in, or through, the retry phase.
InRetryPhase(c) == DOMAIN calls[c].payload # {}

C12_OnlyExhaustionIsRaised ==
  \A c \in DOMAIN calls :
    InRetryPhase(c) =>
      /\ calls[c].error \in {"", ExhaustedError}
      /\ calls[c].pc # "raised" => calls[c].error = ""
      /\ Terminal(c) => (Returned(c) \/ Exhausted(c))
      /\ ~(Returned(c) /\ Exhausted(c))
      /\ (calls[c].failed >= 1 /\ calls[c].attempts < max_retry) => ~Terminal(c)

\* A transport failure and a status error were both absorbed before the
\* call ended with the exhaustion error.
C12_Witness ==
  \E c \in DOMAIN calls :
    /\ Exhausted(c)
    /\ calls[c].raised_conn >= 1
    /\ calls[c].exceptions >= 1
    /\ calls[c].bad_json = 0
    /\ calls[c].first_ok = 0
    /\ calls[c].failed = calls[c].attempts

(***************************************************************************)
(* C13: whatever the results of the attempts are, a call never issues more *)
(* POST attempts than the configured max_retry.                            *)
(***************************************************************************)
C13_AttemptsBounded ==
  \A c \in DOMAIN calls :
    /\ calls[c].attempts <= max_retry
    /\ Cardinality(PostsOf(c)) <= max_retry
    /\ \A r \in PostsOf(c) : r.attempt < max_retry

\* A call that used all three attempts on a mix of results: a success, a
\* transport failure and a status error or unparseable body.
C13_Witness ==
  \E c \in DOMAIN calls :
    /\ max_retry = 3
    /\ Terminal(c)
    /\ calls[c].attempts = 3
    /\ calls[c].first_ok >= 1
    /\ calls[c].raised_conn = 1
    /\ calls[c].exceptions = 1

(***************************************************************************)
(* C14: when every POST attempt eventually completes and every retry wait  *)
(* eventually elapses, a call that passed validation eventually reaches a  *)
(* terminal state, success or exhaustion, and nothing changes a call that  *)
(* is in a terminal state.                                                 *)
(***************************************************************************)
C14_CallTerminates ==
  /\ \A c \in CallIds : InRetryPhase(c) ~> (Returned(c) \/ Exhausted(c))
  /\ [][\A c \in CallIds : Terminal(c) => calls'[c] = calls[c]]_vars

\* A call that went through a success, two failures and a wait before it
\* reached its terminal state.
C14_Witness ==
  \E c \in DOMAIN calls :
    /\ Exhausted(c)
    /\ calls[c].attempts = 3
    /\ calls[c].first_ok = 1
    /\ calls[c].failed = 2
    /\ calls[c].waits = 1

(***************************************************************************)
(* What a call does when it runs alone, stated over its own arguments, the *)
(* environment it read and the results of its own attempts only.           *)
(***************************************************************************)
SoloLaws(c) ==
  LET call == calls[c]
      avatarMissing == /\ call.args.avatar_id \in {NOT_GIVEN, Str("")}
                       /\ call.env_at_entry \in {None, Str("")}
      identityMissing == call.args.livekit_agent_identity \in {NOT_GIVEN, Str("")}
  IN /\ call.pc = "idle" => (call.attempts = 0 /\ PostsOf(c) = {})
     /\ (call.pc # "idle" /\ avatarMissing) =>
          (call.pc = "raised" /\ call.error = AvatarIdError /\ PostsOf(c) = {})
     /\ (call.pc # "idle" /\ ~avatarMissing /\ identityMissing) =>
          (call.pc = "raised" /\ call.error = IdentityError /\ PostsOf(c) = {})
     /\ (call.pc # "idle" /\ ~avatarMissing /\ ~identityMissing) =>
          /\ InRetryPhase(c)
          /\ call.args.extra_payload = NOT_GIVEN =>
               call.payload = [avatario_face_id |-> ResolvedAvatarId(c),
                               agent_id |-> call.args.livekit_agent_identity,
                               livekit |-> GivenProperties(c)]
          /\ {r.attempt : r \in PostsOf(c)} = 0..(call.attempts - 1)
          /\ \A r \in PostsOf(c) : r.json = call.payload
          /\ call.attempts <= max_retry
          /\ ~Terminal(c) => call.attempts = call.i + 1
          /\ Terminal(c) => (Exhausted(c) /\ call.attempts = max_retry)
          /\ call.failed <= Completed(c)
          /\ call.waits <= call.failed
          /\ call.failed <= call.waits + 1
          /\ call.pc = "sleep" => call.attempts < max_retry
          /\ call.warnings = call.raised_conn
          /\ call.warnings + call.exceptions = call.failed

(***************************************************************************)
(* C15: a call, however it ends, leaves the credential, the connection     *)
(* options and the session handle of the client unchanged, and no retry    *)
(* state carries over: a call made after an earlier call has ended counts  *)
(* its attempts from zero, may use max_retry attempts again and behaves as *)
(* a first call does on its inputs and responses.                          *)
(***************************************************************************)
C15_NoStateAcrossCalls ==
  /\ [][client.state = "ok" =>
          /\ client'._api_key = client._api_key
          /\ client'._conn_options = client._conn_options
          /\ client'._session = client._session]_vars
  /\ [](\A d \in TwoCallIds : calls[d].after # {} => SoloLaws(d))

\* A call started after an exhausted call used its full number of attempts
\* and was exhausted in turn.
C15_Witness ==
  \E c, d \in DOMAIN calls :
    /\ c \in calls[d].after
    /\ max_retry = 2
    /\ Exhausted(c) /\ calls[c].attempts = 2
    /\ Exhausted(d) /\ calls[d].attempts = 2 /\ calls[d].waits = 1

(***************************************************************************)
(* C16: two calls running concurrently on one client do not interfere: a   *)
(* step of one call changes neither the state nor the requests of the      *)
(* other, and under every interleaving each call's attempts, waits,        *)
(* request body and outcome obey the laws of a call that runs alone.       *)
(***************************************************************************)
C16_ConcurrentCallsIndependent ==
  /\ [](\A c \in TwoCallIds : SoloLaws(c))
  /\ [][\A c, d \in TwoCallIds :
          (c # d /\ calls'[c] # calls[c]) =>
            /\ calls'[d] = calls[d]
            /\ {r \in requests' : r.call = d} = {r \in requests : r.call = d}
            /\ client' = client]_vars

\* Both calls are in their retry phase at once, neither started after the
\* other ended: one sleeps before its second attempt while the second
\* attempt of the other is in flight.
C16_Witness ==
  /\ calls[1].after = {} /\ calls[2].after = {}
  /\ calls[1].pc = "sleep" /\ calls[1].attempts = 1
  /\ calls[2].pc = "post" /\ calls[2].attempts = 2
  /\ calls[1].payload # calls[2].payload

(***************************************************************************)
(* C17: every failed attempt is logged exactly once, in the step in which  *)
(* it fails and so before the following wait or attempt: as a warning when *)
(* the failure is an APIConnectionError, with logger.exception otherwise;  *)
(* a successful attempt logs nothing, so the number of failure log entries *)
(* of a call is its number of failed attempts.                             *)
(***************************************************************************)
LogEntries(c) == calls[c].warnings + calls[c].exceptions

C17_FailuresLoggedOnce ==
  /\ [](\A c \in CallIds :
          /\ calls[c].warnings = calls[c].raised_conn
          /\ calls[c].exceptions = calls[c].raised - calls[c].raised_conn
          /\ LogEntries(c) = calls[c].raised
          /\ LogEntries(c) <= Completed(c) - (IF calls[c].first_ok >= 1 THEN 1 ELSE 0))
  /\ [][\A c \in CallIds :
          /\ calls'[c].raised # calls[c].raised =>
               /\ calls'[c].raised = calls[c].raised + 1
               /\ calls'[c].warnings + calls'[c].exceptions = LogEntries(c) + 1
          /\ calls'[c].raised = calls[c].raised =>
               /\ calls'[c].warnings = calls[c].warnings
               /\ calls'[c].exceptions = calls[c].exceptions]_vars

\* Three attempts: a success, which logged nothing, a connection error
\* logged as a warning and another failure logged with logger.exception.
C17_Witness ==
  \E c \in DOMAIN calls :
    /\ Terminal(c)
    /\ calls[c].attempts = 3
    /\ calls[c].first_ok >= 1
    /\ calls[c].warnings = 1
    /\ calls[c].exceptions = 1
    /\ calls[c].raised = 2

(***************************************************************************)
(* C18: the avatar id sent is resolved once, at call entry, the argument   *)
(* taking precedence: a non-empty avatar_id argument is the value sent     *)
(* whatever AVATARIO_REPLICA_ID holds, the environment value is used only  *)
(* when the argument is empty or not given, and the call fails when both   *)
(* are empty.                                                              *)
(***************************************************************************)
BothAvatarIdsEmpty(c) ==
  /\ calls[c].args.avatar_id \in {NOT_GIVEN, Str("")}
  /\ calls[c].env_at_entry \in {None, Str("")}

\* The extra payload of the call carries the avatar id key itself.
AvatarIdOverridden(c) ==
  /\ calls[c].args.extra_payload # NOT_GIVEN
  /\ "avatario_face_id" \in DOMAIN calls[c].args.extra_payload.d

C18_ArgumentThenEnvironment ==
  \A c \in DOMAIN calls :
    /\ (calls[c].pc # "idle" /\ BothAvatarIdsEmpty(c)) =>
         (calls[c].pc = "raised" /\ calls[c].error = AvatarIdError /\ PostsOf(c) = {})
    /\ \A r \in PostsOf(c) :
         /\ calls[c].args.avatar_id \notin {NOT_GIVEN, Str("")} =>
              r.json["avatario_face_id"] = calls[c].args.avatar_id
         /\ calls[c].args.avatar_id \in {NOT_GIVEN, Str("")} =>
              r.json["avatario_face_id"] = calls[c].env_at_entry

\* C18 as amended: the resolved id is the value sent unless the extra
\* payload carries the key avatario_face_id, whose value is then sent.
C18_ArgumentThenEnvironmentUnlessOverridden ==
  \A c \in DOMAIN calls :
    /\ (calls[c].pc # "idle" /\ BothAvatarIdsEmpty(c)) =>
         (calls[c].pc = "raised" /\ calls[c].error = AvatarIdError /\ PostsOf(c) = {})
    /\ \A r \in PostsOf(c) :
         /\ ~BothAvatarIdsEmpty(c)
         /\ (~AvatarIdOverridden(c)
               /\ calls[c].args.avatar_id \notin {NOT_GIVEN, Str("")}) =>
              r.json["avatario_face_id"] = calls[c].args.avatar_id
         /\ (~AvatarIdOverridden(c)
               /\ calls[c].args.avatar_id \in {NOT_GIVEN, Str("")}) =>
              r.json["avatario_face_id"] = calls[c].env_at_entry
         /\ AvatarIdOverridden(c) =>
              r.json["avatario_face_id"] =
                calls[c].args.extra_payload.d["avatario_face_id"]

\* The second attempt of a call without avatar_id argument still carries
\* the environment value read at entry, the variable having been unset since.
C18_Witness ==
  \E c \in DOMAIN calls :
    /\ calls[c].args.avatar_id = NOT_GIVEN
    /\ env["AVATARIO_REPLICA_ID"] = None
    /\ \E r \in PostsOf(c) :
         /\ r.attempt = 1
         /\ r.json["avatario_face_id"] = Str("env-avatar")

(***************************************************************************)
(* C19: with max_retry = 0 a call with a valid avatar id and agent         *)
(* identity issues no POST and makes no wait, and fails at once with the   *)
(* exhaustion error although the service was never contacted.              *)
(***************************************************************************)
C19_ZeroRetriesNeverPosts ==
  \A c \in DOMAIN calls :
    (/\ client.state = "ok"
     /\ max_retry = 0
     /\ calls[c].pc # "idle"
     /\ ~BothAvatarIdsEmpty(c)
     /\ calls[c].args.livekit_agent_identity \notin {NOT_GIVEN, Str("")}) =>
      /\ Exhausted(c)
      /\ calls[c].attempts = 0
      /\ calls[c].waits = 0
      /\ calls[c].raised = 0
      /\ LogEntries(c) = 0
      /\ requests = {}

\* A valid call on a client constructed with max_retry = 0.
C19_Witness ==
  \E c \in DOMAIN calls :
    /\ client.state = "ok"
    /\ max_retry = 0
    /\ Exhausted(c)
    /\ calls[c].payload["agent_id"] = Str("agent-1")
    /\ requests = {}

(***************************************************************************)
(* C20: an attempt answered with a 2xx status and a body that is not JSON  *)
(* is a failed attempt, not a success: it is logged, followed by a wait    *)
(* when an attempt remains, and counts toward exhaustion, so a service     *)
(* that always answers so exhausts the call after max_retry attempts.      *)
(***************************************************************************)
C20_UnparseableBodyIsFailure ==
  /\ [](\A c \in CallIds :
          /\ calls[c].bad_json <= calls[c].failed
          /\ calls[c].bad_json <= calls[c].exceptions
          /\ (max_retry >= 1 /\ calls[c].bad_json = max_retry) =>
               /\ Exhausted(c)
               /\ calls[c].attempts = max_retry
               /\ calls[c].first_ok = 0
               /\ calls[c].exceptions = max_retry
               /\ calls[c].waits = max_retry - 1)
  /\ [][\A c \in CallIds :
          calls'[c].bad_json # calls[c].bad_json =>
            /\ calls[c].pc = "json" /\ Is2xx(calls[c].status)
            /\ calls'[c].bad_json = calls[c].bad_json + 1
            /\ calls'[c].first_ok = calls[c].first_ok
            /\ calls'[c].failed = calls[c].failed + 1
            /\ calls'[c].exceptions = calls[c].exceptions + 1
            /\ IF calls[c].i < max_retry - 1
               THEN /\ calls'[c].pc = "sleep"
                    /\ calls'[c].waits = calls[c].waits + 1
                    /\ calls'[c].attempts = calls[c].attempts
               ELSE /\ calls'[c].pc = "raised"
                    /\ calls'[c].error = ExhaustedError
                    /\ calls'[c].waits = calls[c].waits]_vars

\* Three attempts, each answered 2xx with an unparseable body, then the
\* exhaustion error.
C20_Witness ==
  \E c \in DOMAIN calls :
    /\ max_retry = 3
    /\ calls[c].bad_json = 3
    /\ Exhausted(c)

====
